---- MODULE Spec2Model ----
(***************************************************************************)
(* Model of training/evaluation_simple.py, function evaluate(): the        *)
(* annotation decoder, the inter-rater agreement loop, the consensus       *)
(* (majority) builder, the system-output aligner and the scorer.           *)
(*                                                                         *)
(* evaluate() is one batch pipeline.  Each of its stages is modelled by    *)
(* its own specification, started from any input the preceding stage can   *)
(* hand to it:                                                             *)
(*   SpecDecode     lines  73- 89   one annotator row -> one tag           *)
(*   SpecAgree      lines  95-136   agreement counters, contingency table  *)
(*   SpecConsensus  lines 142-151   majority tag per zipped line           *)
(*   SpecScore      lines 153-189   alignment, accuracy, precision/recall  *)
(* An uncaught Python exception is modelled by pc becoming the name of the *)
(* exception; the run stops there.                                         *)
(***************************************************************************)
EXTENDS Integers, Sequences, FiniteSets, TLC

VARIABLES
    pc,                   \* position in evaluate(), or the exception raised
    movies,               \* movies of line 64, the keys of ann in order
    \* ---- annotation decoder (lines 73-89)
    row,                  \* the row being decoded: line, S, N, C, D, E, T
    t,                    \* position of the inner loop in TagList (1-based)
    n,                    \* n of line 77
    atag,                 \* atag of line 78
    anns,                 \* anns of line 71
    \* ---- agreement loop (lines 95-136) and consensus loop (lines 142-151)
    nrows,                \* nrows[movie][k]: rows of annotator k's sheet
    m,                    \* position of the movie loop (1-based)
    k,                    \* lines of the current movie already zipped
    a,                    \* <<a1, a2, a3>> of lines 105 and 144
    n1, n2, n3,           \* per-movie counters of line 103
    n_rater_pairs,
    n_agree_rater_pairs,
    item_x_class_table,   \* sequence of rows, each a sequence of 7 counts
    i,                    \* running item index of line 98 (0-based)
    report,               \* what logf has written: sequence of records
    maj,                  \* maj of line 143, the list being built
    \* ---- aligner and scorer (lines 153-189)
    ann_maj,              \* ann[movie]["maj"]
    ann_sys,              \* ann[movie]["sys"], or Unset
    tag_files,            \* content of <movie>_tags.txt, one token per line
    line_numbers          \* line_numbers: sequence of [movie, i, j]

decodeVars == <<row, t, n, atag, anns>>
agreeVars  == <<nrows, m, k, a, n1, n2, n3, n_rater_pairs, n_agree_rater_pairs,
                item_x_class_table, i, maj>>
scoreVars  == <<ann_maj, ann_sys, tag_files, line_numbers>>
vars == <<pc, movies, decodeVars, agreeVars, report, scoreVars>>

(***************************************************************************)
(* Bounds of the model.                                                    *)
(***************************************************************************)
\* number of different cell values a spreadsheet cell is drawn from
NumCells == 5
\* most rows one annotator's workbook holds, all movies together (agreement)
MaxRows == 3
\* most rows one annotator's workbook holds, all movies together (consensus)
MaxVotes == 2
\* most rows of the consensus sequence of the free movie (scoring)
MaxLines == 2
\* most lines of the tag file of the free movie (scoring)
MaxFile == 2

(***************************************************************************)
(* Tag taxonomy.                                                           *)
(***************************************************************************)
\* ["S","N","C","D","E","T"] of lines 79, 157 and 178
TagList == <<"S", "N", "C", "D", "E", "T">>
\* ["S","N","C","D","E","T","O"] of line 118
CategoryList == <<"S", "N", "C", "D", "E", "T", "O">>
Tags == {TagList[x] : x \in 1..Len(TagList)}
Categories == {CategoryList[x] : x \in 1..Len(CategoryList)}

\* list.index(a) of line 118, 1-based
CategoryIndex(c) == CHOOSE x \in 1..Len(CategoryList) : CategoryList[x] = c

Min(x, y) == IF x <= y THEN x ELSE y
Max(x, y) == IF x >= y THEN x ELSE y

RECURSIVE SumSeq(_)
SumSeq(s) == IF s = <<>> THEN 0 ELSE Head(s) + SumSeq(Tail(s))

(***************************************************************************)
(* Annotation decoder, lines 73-89.                                        *)
(* A cell is text (a sequence of characters) or not text (pandas gives NaN *)
(* for an empty cell, a number for a numeric one).                         *)
(***************************************************************************)
Text(s) == [isStr |-> TRUE, text |-> s]
NaN == [isStr |-> FALSE, text |-> <<>>]

\* str.isspace characters of the model
Whitespace == {" "}

RECURSIVE LStrip(_)
LStrip(s) == IF s # <<>> /\ Head(s) \in Whitespace THEN LStrip(Tail(s)) ELSE s

RECURSIVE RStrip(_)
RStrip(s) ==
    IF s # <<>> /\ s[Len(s)] \in Whitespace
    THEN RStrip(SubSeq(s, 1, Len(s) - 1))
    ELSE s

\* str.strip()
Strip(s) == RStrip(LStrip(s))

\* the cell values of the model, in the order the bound NumCells admits them
CellList ==
    << NaN,
       Text(<<"a">>),
       Text(<<" ", "a", " ">>),
       Text(<<" ">>),
       Text(<<"b">>),
       Text(<<>>) >>
Cells == {CellList[x] : x \in 1..NumCells}

Fields == {"line"} \cup Tags

\* line 74: not isinstance(row["line"], str) or row["line"].strip() == ""
LineIsBlank(r) == ~r["line"].isStr \/ Strip(r["line"].text) = <<>>

\* line 80: isinstance(row[tag], str) and row["line"].strip() == row[tag].strip()
FieldMatches(r, tag) ==
    r[tag].isStr /\ Strip(r["line"].text) = Strip(r[tag].text)

\* a decoder that keeps the last matching tag whatever the other fields hold
DecodeResultLastMatch(atag_, n_) == IF atag_ # "" THEN atag_ ELSE "O"

\* lines 84-87: the tag appended once the six fields are examined
DecodeResult(atag_, n_) == IF atag_ # "" /\ n_ = 5 THEN atag_ ELSE "O"

\* lines 74-75
DecodeBlankRow ==
    /\ pc = "row"
    /\ LineIsBlank(row)
    /\ anns' = Append(anns, "O")
    /\ pc' = "row_done"
    /\ UNCHANGED <<movies, row, t, n, atag, agreeVars, report, scoreVars>>

\* lines 76-78
DecodeBeginTags ==
    /\ pc = "row"
    /\ ~LineIsBlank(row)
    /\ n' = 0
    /\ atag' = ""
    /\ t' = 1
    /\ pc' = "tags"
    /\ UNCHANGED <<movies, row, anns, agreeVars, report, scoreVars>>

\* lines 79-83, one iteration
DecodeTag ==
    /\ pc = "tags"
    /\ t <= Len(TagList)
    /\ IF FieldMatches(row, TagList[t])
       THEN atag' = TagList[t] /\ n' = n
       ELSE n' = n + 1 /\ atag' = atag
    /\ t' = t + 1
    /\ UNCHANGED <<movies, pc, row, anns, agreeVars, report, scoreVars>>

\* lines 84-87
DecodeEndRow ==
    /\ pc = "tags"
    /\ t > Len(TagList)
    /\ anns' = Append(anns, DecodeResult(atag, n))
    /\ pc' = "row_done"
    /\ UNCHANGED <<movies, row, t, n, atag, agreeVars, report, scoreVars>>

IdleAgree ==
    /\ nrows = <<>>
    /\ m = 0 /\ k = 0 /\ a = <<>>
    /\ n1 = 0 /\ n2 = 0 /\ n3 = 0
    /\ n_rater_pairs = 0 /\ n_agree_rater_pairs = 0
    /\ item_x_class_table = <<>>
    /\ i = 0
    /\ maj = <<>>

IdleDecode ==
    /\ row = <<>>
    /\ t = 0 /\ n = 0 /\ atag = "" /\ anns = <<>>

IdleScore ==
    /\ ann_maj = <<>>
    /\ ann_sys = <<>>
    /\ tag_files = <<>>
    /\ line_numbers = <<>>

\* one row of one sheet, as df.iterrows() yields it (line 73)
InitDecode ==
    /\ pc = "row"
    /\ movies = <<>>
    /\ row \in [Fields -> Cells]
    /\ t = 0 /\ n = 0 /\ atag = "" /\ anns = <<>>
    /\ report = <<>>
    /\ IdleAgree
    /\ IdleScore

NextDecode == DecodeBlankRow \/ DecodeBeginTags \/ DecodeTag \/ DecodeEndRow

SpecDecode == InitDecode /\ [][NextDecode]_vars


(***************************************************************************)
(* C2.  What a row decodes to, stated without the decoder's loop.          *)
(***************************************************************************)
\* the text between the first and the last character that is not whitespace
Trimmed(s) ==
    LET Solid == {x \in 1..Len(s) : s[x] \notin Whitespace}
    IN  IF Solid = {} THEN <<>>
        ELSE SubSeq(s, CHOOSE x \in Solid : \A y \in Solid : x <= y,
                       CHOOSE x \in Solid : \A y \in Solid : x >= y)

\* the tag fields that are text equal to the line, whitespace stripped on both
MatchingTags(r) ==
    {tag \in Tags : r[tag].isStr /\ Trimmed(r[tag].text) = Trimmed(r["line"].text)}

ExpectedTag(r) ==
    IF r["line"].isStr /\ Trimmed(r["line"].text) # <<>>
       /\ Cardinality(MatchingTags(r)) = 1
    THEN CHOOSE tag \in MatchingTags(r) : TRUE
    ELSE "O"

\* C2: a decoded row yields tag t iff its line is non-blank text and t is the
\* one and only tag field equal to the line after stripping; every other row
\* (line not text, blank line, no match, two or more matches) yields "O".
C2_DecodeExactlyOneMatch ==
    pc = "row_done" => anns = <<ExpectedTag(row)>>

\* a row whose line equals two tag fields (one of them only after stripping)
\* has been decoded to "O"
C2_WitnessAmbiguousRow ==
    /\ pc = "row_done"
    /\ row["line"] = Text(<<" ", "a", " ">>)
    /\ row["S"] = Text(<<"a">>)
    /\ row["N"] = Text(<<" ", "a", " ">>)
    /\ anns = <<"O">>


(***************************************************************************)
(* Inputs of the agreement and consensus loops.                            *)
(* ann[movie]["ann1".."ann3"] are three tag sequences; the loops read them *)
(* only through zip(), which yields one triple per step and stops with the *)
(* shortest.  nrows keeps the three lengths; the triple yielded is drawn   *)
(* when the loop asks for it.                                              *)
(***************************************************************************)
\* the sheets after the first one (line 64)
MovieList == <<"m1", "m2">>
MovieSet == {MovieList[x] : x \in 1..Len(MovieList)}
Annotators == 1..3

\* the decoded tags the agreement loop is run on: the first and the last
\* structural tag, and "O"
VoteTags == {"S", "T", "O"}

\* len(annotator_k_df_dict[mv]) == len(ann[mv]["ann<k>"]), by lines 73-89
RowCount(mv, who) == nrows[mv][who]

\* rows of annotator `who` over all movies
RECURSIVE TotalRows(_, _)
TotalRows(who, upto) ==
    IF upto = 0 THEN 0
    ELSE RowCount(movies[upto], who) + TotalRows(who, upto - 1)

\* number of triples zip(ann1, ann2, ann3) yields for a movie (lines 105, 144)
ZipLen(mv) == Min(RowCount(mv, 1), Min(RowCount(mv, 2), RowCount(mv, 3)))

\* the workbooks of the three annotators, each of at most `bound` rows
RowCounts(bound) ==
    {f \in [MovieSet -> [Annotators -> 0..bound]] :
        \A who \in Annotators :
            f[MovieList[1]][who] + f[MovieList[2]][who] <= bound}

(***************************************************************************)
(* Agreement loop, lines 95-136.                                           *)
(***************************************************************************)
ZeroRow == [x \in 1..Len(CategoryList) |-> 0]

\* line 97: sum(len(annotator_1_df_dict[movie]) for movie in movies)
TableRows == TotalRows(1, Len(movies))

\* a rater-pair counter that gives two pairs to a line where two agree
AgreeingPairsTwoForPartial(a1, a2, a3) ==
    LET S == {a1, a2, a3}
    IN  IF Cardinality(S) = 1 THEN 3 ELSE IF Cardinality(S) = 2 THEN 2 ELSE 0

\* lines 106-114: what one line adds to n_agree_rater_pairs
AgreeingPairs(a1, a2, a3) ==
    LET S == {a1, a2, a3}
    IN  IF Cardinality(S) = 1 THEN 3 ELSE IF Cardinality(S) = 2 THEN 1 ELSE 0

\* lines 117-119: item_x_class_table[i, j] += 1 for a in [a1, a2, a3]
RECURSIVE AddVotes(_, _)
AddVotes(tablerow, votes) ==
    IF votes = <<>> THEN tablerow
    ELSE AddVotes([tablerow EXCEPT ![CategoryIndex(Head(votes))] = @ + 1],
                  Tail(votes))

\* an item index that is left where it was
ItemIndexNotAdvanced(idx) == idx

\* line 120: i += 1
ItemIndexAfterLine(idx) == idx + 1

\* line 102, entering the body for the next movie; line 103
AgreeBeginMovie ==
    /\ pc = "agree_movie"
    /\ m <= Len(movies)
    /\ n1' = 0 /\ n2' = 0 /\ n3' = 0
    /\ k' = 0
    /\ pc' = "agree_line"
    /\ UNCHANGED <<movies, decodeVars, nrows, m, a, n_rater_pairs,
                   n_agree_rater_pairs, item_x_class_table, i, maj, report,
                   scoreVars>>

\* lines 105-120, one iteration.  numpy raises IndexError for a row index
\* that is not below the number of rows (line 119).
AgreeLine ==
    /\ pc = "agree_line"
    /\ k < ZipLen(movies[m])
    /\ \E a1 \in VoteTags, a2 \in VoteTags, a3 \in VoteTags :
        LET S == {a1, a2, a3}
        IN  /\ a' = <<a1, a2, a3>>
            /\ n1' = IF Cardinality(S) = 1 THEN n1 + 1 ELSE n1
            /\ n2' = IF Cardinality(S) = 2 THEN n2 + 1 ELSE n2
            /\ n3' = IF Cardinality(S) > 2 THEN n3 + 1 ELSE n3
            /\ n_agree_rater_pairs' = n_agree_rater_pairs + AgreeingPairs(a1, a2, a3)
            /\ n_rater_pairs' = n_rater_pairs + 3
            /\ IF i < Len(item_x_class_table)
               THEN /\ item_x_class_table' =
                         [item_x_class_table EXCEPT
                             ![i + 1] = AddVotes(@, <<a1, a2, a3>>)]
                    /\ i' = ItemIndexAfterLine(i)
                    /\ k' = k + 1
                    /\ pc' = pc
               ELSE /\ pc' = "IndexError"
                    /\ UNCHANGED <<item_x_class_table, i, k>>
    /\ UNCHANGED <<movies, decodeVars, nrows, m, maj, report, scoreVars>>

\* lines 122-124 when the movie yielded at least one triple
AgreeEndMovie ==
    /\ pc = "agree_line"
    /\ k = ZipLen(movies[m])
    /\ n1 + n2 + n3 # 0
    /\ report' = Append(report,
                        [movie |-> movies[m], num |-> 100 * n1,
                         den |-> n1 + n2 + n3, two |-> n2, none |-> n3])
    /\ m' = m + 1
    /\ k' = 0
    /\ pc' = "agree_movie"
    /\ UNCHANGED <<movies, decodeVars, nrows, a, n1, n2, n3, n_rater_pairs,
                   n_agree_rater_pairs, item_x_class_table, i, maj, scoreVars>>

\* line 124 when it yielded none: 100*n1/n divides by zero
AgreeEndMovieNoLines ==
    /\ pc = "agree_line"
    /\ k = ZipLen(movies[m])
    /\ n1 + n2 + n3 = 0
    /\ pc' = "ZeroDivisionError"
    /\ UNCHANGED <<movies, decodeVars, agreeVars, report, scoreVars>>

\* lines 126-136, after the last movie.  krippendorff.alpha and fleiss_kappa
\* are library functions of the table; their values are not modelled.
AgreeReport ==
    /\ pc = "agree_movie"
    /\ m > Len(movies)
    /\ IF n_rater_pairs = 0
       THEN pc' = "ZeroDivisionError" /\ report' = report
       ELSE /\ report' = Append(report,
                                [movie |-> "", num |-> 100 * n_agree_rater_pairs,
                                 den |-> n_rater_pairs, two |-> 0, none |-> 0])
            /\ pc' = "agree_done"
    /\ UNCHANGED <<movies, decodeVars, agreeVars, scoreVars>>

\* lines 95-98, for any three workbooks of at most MaxRows rows each
InitAgree ==
    /\ pc = "agree_movie"
    /\ movies = MovieList
    /\ IdleDecode
    /\ nrows \in RowCounts(MaxRows)
    /\ m = 1 /\ k = 0 /\ a = <<>>
    /\ n1 = 0 /\ n2 = 0 /\ n3 = 0
    /\ n_rater_pairs = 0
    /\ n_agree_rater_pairs = 0
    /\ item_x_class_table = [x \in 1..TableRows |-> ZeroRow]
    /\ i = 0
    /\ maj = <<>>
    /\ report = <<>>
    /\ IdleScore

NextAgree ==
    \/ AgreeBeginMovie
    \/ AgreeLine
    \/ AgreeEndMovie
    \/ AgreeEndMovieNoLines
    \/ AgreeReport

SpecAgree == InitAgree /\ [][NextAgree]_vars


(***************************************************************************)
(* C5, C6, C10.  The agreement loop.                                       *)
(***************************************************************************)
AgreeRunning == pc \in {"agree_movie", "agree_line", "agree_done"}
AgreeLoopFinished == (pc = "agree_movie" /\ m > Len(movies)) \/ pc = "agree_done"

\* triples yielded by the movies before position upto + 1
RECURSIVE ZippedUpTo(_)
ZippedUpTo(upto) ==
    IF upto = 0 THEN 0 ELSE ZipLen(movies[upto]) + ZippedUpTo(upto - 1)

\* lines the loop has processed so far
LinesProcessed == ZippedUpTo(m - 1) + k

\* the unordered annotator pairs (1,2), (1,3), (2,3) that hold equal tags
EqualPairs(tr) ==
    Cardinality({p \in {<<1, 2>>, <<1, 3>>, <<2, 3>>} : tr[p[1]] = tr[p[2]]})

\* the same number, from a table row: pairs of votes in the same column
RECURSIVE PairsInRow(_)
PairsInRow(tablerow) ==
    IF tablerow = <<>> THEN 0
    ELSE (Head(tablerow) * (Head(tablerow) - 1)) \div 2 + PairsInRow(Tail(tablerow))

RECURSIVE PairsInRows(_)
PairsInRows(upto) ==
    IF upto = 0 THEN 0
    ELSE PairsInRow(item_x_class_table[upto]) + PairsInRows(upto - 1)

Unanimous(tablerow) == \E x \in 1..Len(tablerow) : tablerow[x] = 3

C5_Counters ==
    AgreeRunning =>
        /\ n_rater_pairs = 3 * LinesProcessed
        /\ n_agree_rater_pairs = PairsInRows(LinesProcessed)
        /\ n_agree_rater_pairs <= n_rater_pairs
        /\ (n_agree_rater_pairs = n_rater_pairs) <=>
               \A r \in 1..LinesProcessed : Unanimous(item_x_class_table[r])
        /\ pc = "agree_done" =>
               /\ LinesProcessed >= 1
               /\ report[Len(report)].num = 100 * n_agree_rater_pairs
               /\ report[Len(report)].den = n_rater_pairs

C5_LineStep ==
    n_rater_pairs' # n_rater_pairs =>
        /\ n_rater_pairs' = n_rater_pairs + 3
        /\ n_agree_rater_pairs' = n_agree_rater_pairs + EqualPairs(a')
        /\ EqualPairs(a') \in {0, 1, 3}
        /\ EqualPairs(a') = 3 <=> (a'[1] = a'[2] /\ a'[2] = a'[3])
        /\ EqualPairs(a') = 0 <=> Cardinality({a'[1], a'[2], a'[3]}) = 3

\* C5: the total-pair counter is 3 per processed line; each line adds to the
\* agreeing-pair counter the number of annotator pairs with equal tags (3 for
\* full agreement, 1 when exactly two agree, 0 when all differ); the reported
\* ratio is 100% exactly when every processed line is in full agreement.
C5_AgreementCounting == []C5_Counters /\ [][C5_LineStep]_vars

\* three lines processed: one unanimous, one two-to-one, one all different
C5_WitnessMixedLines ==
    /\ pc = "agree_done"
    /\ LinesProcessed = 3
    /\ n_rater_pairs = 9
    /\ n_agree_rater_pairs = 4

\* C6: when the agreement loop has finished, every row of the table sums to 3,
\* for all inputs (also when the annotators' row sets differ in length).
C6_RowSumsAreThree ==
    AgreeLoopFinished =>
        \A r \in 1..Len(item_x_class_table) : SumSeq(item_x_class_table[r]) = 3

\* C10: the item index stays below the number of table rows whenever a line is
\* written, the row it writes is one no earlier line wrote, and the index
\* counts the lines processed.
C10_ItemIndexInBounds ==
    /\ pc # "IndexError"
    /\ AgreeRunning =>
        /\ i = LinesProcessed
        /\ i <= TotalRows(1, Len(movies))
        /\ Len(item_x_class_table) = TotalRows(1, Len(movies))
        /\ (pc = "agree_line" /\ k < ZipLen(movies[m])) =>
               i < Len(item_x_class_table)
        /\ \A r \in 1..Len(item_x_class_table) :
               IF r <= i THEN SumSeq(item_x_class_table[r]) = 3
               ELSE item_x_class_table[r] = ZeroRow
        /\ AgreeLoopFinished => i = ZippedUpTo(Len(movies))

\* both movies processed although the annotators' sheets differ in length
C10_WitnessUnequalSheets ==
    /\ pc = "agree_done"
    /\ nrows["m1"] = <<2, 1, 1>>
    /\ nrows["m2"] = <<1, 2, 1>>
    /\ i = 2


(***************************************************************************)
(* Consensus builder, lines 142-151.                                       *)
(***************************************************************************)
\* a majority vote that forgets to compare annotators 2 and 3
ConsensusWithoutSecondPair(a1, a2, a3) ==
    IF a1 = a2 \/ a1 = a3 THEN a1 ELSE "O"

\* lines 145-150: the tag appended to maj
Consensus(a1, a2, a3) ==
    IF a1 = a2 \/ a1 = a3 THEN a1
    ELSE IF a2 = a3 THEN a2
    ELSE "O"

\* line 142, entering the body for the next movie; line 143
ConsensusBeginMovie ==
    /\ pc = "maj_movie"
    /\ m <= Len(movies)
    /\ maj' = <<>>
    /\ k' = 0
    /\ pc' = "maj_line"
    /\ UNCHANGED <<movies, decodeVars, nrows, m, a, n1, n2, n3, n_rater_pairs,
                   n_agree_rater_pairs, item_x_class_table, i, report,
                   scoreVars>>

\* lines 144-150, one iteration
ConsensusLine ==
    /\ pc = "maj_line"
    /\ k < ZipLen(movies[m])
    /\ \E a1 \in Categories, a2 \in Categories, a3 \in Categories :
        /\ a' = <<a1, a2, a3>>
        /\ maj' = Append(maj, Consensus(a1, a2, a3))
    /\ k' = k + 1
    /\ UNCHANGED <<pc, movies, decodeVars, nrows, m, n1, n2, n3, n_rater_pairs,
                   n_agree_rater_pairs, item_x_class_table, i, report,
                   scoreVars>>

\* line 151
ConsensusEndMovie ==
    /\ pc = "maj_line"
    /\ k = ZipLen(movies[m])
    /\ ann_maj' = ann_maj @@ (movies[m] :> maj)
    /\ m' = m + 1
    /\ pc' = "maj_movie"
    /\ UNCHANGED <<movies, decodeVars, nrows, k, a, n1, n2, n3, n_rater_pairs,
                   n_agree_rater_pairs, item_x_class_table, i, maj, report,
                   ann_sys, tag_files, line_numbers>>

\* line 142, the loop is exhausted
ConsensusDone ==
    /\ pc = "maj_movie"
    /\ m > Len(movies)
    /\ pc' = "maj_done"
    /\ UNCHANGED <<movies, decodeVars, agreeVars, report, scoreVars>>

\* line 142, for any three workbooks of at most MaxVotes rows each
InitConsensus ==
    /\ pc = "maj_movie"
    /\ movies = MovieList
    /\ IdleDecode
    /\ nrows \in RowCounts(MaxVotes)
    /\ m = 1 /\ k = 0 /\ a = <<>>
    /\ n1 = 0 /\ n2 = 0 /\ n3 = 0
    /\ n_rater_pairs = 0
    /\ n_agree_rater_pairs = 0
    /\ item_x_class_table = <<>>
    /\ i = 0
    /\ maj = <<>>
    /\ report = <<>>
    /\ IdleScore

NextConsensus ==
    \/ ConsensusBeginMovie
    \/ ConsensusLine
    \/ ConsensusEndMovie
    \/ ConsensusDone

SpecConsensus == InitConsensus /\ [][NextConsensus]_vars

(***************************************************************************)
(* C1.  The consensus tag is the plurality of three.                       *)
(***************************************************************************)
\* annotators holding tag c in the triple tr
Holders(tr, c) == {who \in Annotators : tr[who] = c}

\* the tag at least two annotators hold, "O" when there is none
PluralityOfThree(tr) ==
    IF \E c \in Categories : Cardinality(Holders(tr, c)) >= 2
    THEN CHOOSE c \in Categories : Cardinality(Holders(tr, c)) >= 2
    ELSE "O"

\* C1: for every triple of tags, the tag appended to maj is the tag held by
\* at least two of the three annotators, and "O" when all three differ.
C1_ConsensusIsPlurality ==
    (pc = "maj_line" /\ k > 0) =>
        /\ Len(maj) = k
        /\ maj[k] = PluralityOfThree(a)
        /\ a = <<"S", "S", "N">> => maj[k] = "S"
        /\ a = <<"S", "N", "C">> => maj[k] = "O"
        /\ a = <<"O", "S", "S">> => maj[k] = "S"

\* annotator 1 is the odd one out and the other two agree
C1_WitnessFirstAnnotatorOutvoted ==
    /\ pc = "maj_line"
    /\ k = 2
    /\ a = <<"O", "S", "S">>
    /\ maj = <<"O", "S">>


(***************************************************************************)
(* System-output aligner and scorer, lines 153-189.                        *)
(* Inputs: ann[movie]["maj"] for every movie, one line_numbers entry per   *)
(* movie and the movie's tag file.                                         *)
(***************************************************************************)
\* consensus tags of the free movie: the first and the last structural tag, "O"
ScoreTags == {"S", "T", "O"}
\* tokens of the free movie's tag file; "M" stands for any token outside the
\* six structural tags
Tokens == {"S", "T", "M"}

SeqsUpTo(S, len) == UNION {[1..l -> S] : l \in 0..len}

\* line 157
Normalize(tokens) ==
    [x \in 1..Len(tokens) |-> IF tokens[x] \in Tags THEN tokens[x] ELSE "O"]

\* a slice bound as Python's list slicing reads it
SliceBound(x, len) == IF x < 0 THEN Max(x + len, 0) ELSE Min(x, len)

\* line 158: tags[i:j]
PySlice(s, from, to) ==
    SubSeq(s, SliceBound(from, Len(s)) + 1, SliceBound(to, Len(s)))

\* positions zip(maj, sys) yields
ZipPositions(x, y) == 1..Min(Len(x), Len(y))

\* a match counter that compares each consensus tag with the next system tag
MatchCountShifted(x, y) ==
    Cardinality({pos \in ZipPositions(x, y) :
                    pos < Len(y) /\ x[pos] = y[pos + 1]})

\* line 167: sum(x == y for x, y in zip(maj, sys))
MatchCount(x, y) == Cardinality({pos \in ZipPositions(x, y) : x[pos] = y[pos]})

\* a false-positive counter that leaves out the positions where consensus is "O"
FalsePositivesIgnoringO(x, y, tag) ==
    Cardinality({pos \in ZipPositions(x, y) :
                    x[pos] # "O" /\ x[pos] # y[pos] /\ y[pos] = tag})

\* line 181: sum(x == y == tag ...)
TruePositives(x, y, tag) ==
    Cardinality({pos \in ZipPositions(x, y) : x[pos] = y[pos] /\ y[pos] = tag})

\* line 182: sum(x != y == tag ...)
FalsePositives(x, y, tag) ==
    Cardinality({pos \in ZipPositions(x, y) : x[pos] # y[pos] /\ y[pos] = tag})

\* line 183: sum(tag == x != y ...)
FalseNegatives(x, y, tag) ==
    Cardinality({pos \in ZipPositions(x, y) : tag = x[pos] /\ x[pos] # y[pos]})

\* lines 180-183: the three sums over ann.keys()
RECURSIVE CorpusTruePositives(_, _)
CorpusTruePositives(tag, upto) ==
    IF upto = 0 THEN 0
    ELSE TruePositives(ann_maj[movies[upto]], ann_sys[movies[upto]], tag)
         + CorpusTruePositives(tag, upto - 1)

RECURSIVE CorpusFalsePositives(_, _)
CorpusFalsePositives(tag, upto) ==
    IF upto = 0 THEN 0
    ELSE FalsePositives(ann_maj[movies[upto]], ann_sys[movies[upto]], tag)
         + CorpusFalsePositives(tag, upto - 1)

RECURSIVE CorpusFalseNegatives(_, _)
CorpusFalseNegatives(tag, upto) ==
    IF upto = 0 THEN 0
    ELSE FalseNegatives(ann_maj[movies[upto]], ann_sys[movies[upto]], tag)
         + CorpusFalseNegatives(tag, upto - 1)

\* "{:5.1f}".format(num/den) in tenths: the nearest tenth, a tie to the even
\* one (a tie needs den >= 16 here, as num is a multiple of 100)
OneDecimal(num, den) ==
    LET q == (10 * num) \div den
        r == (10 * num) % den
    IN  IF 2 * r > den THEN q + 1
        ELSE IF 2 * r < den THEN q
        ELSE IF q % 2 = 0 THEN q ELSE q + 1

AccuracyLine(mv, num, den) ==
    [kind |-> "acc", key |-> mv, tp |-> 0, fp |-> 0, fn |-> 0,
     num |-> num, den |-> den, shown |-> OneDecimal(num, den)]

\* line 187; p, r and f1 are kept as the fractions of lines 184-186:
\* f1 = 2*p*r/(p + r) = 2*tp / ((tp + fp) + (tp + fn))
ScoreLine(tag, tp, fp, fn) ==
    [kind |-> "prf", key |-> tag, tp |-> tp, fp |-> fp, fn |-> fn,
     num |-> 2 * tp, den |-> (tp + fp) + (tp + fn),
     shown |-> OneDecimal(100 * 2 * tp, (tp + fp) + (tp + fn))]

\* lines 153-158, one iteration
AlignLine ==
    /\ pc = "sys_line"
    /\ m <= Len(line_numbers)
    /\ LET movie == line_numbers[m].movie
           tags == Normalize(tag_files[movie])
       IN  ann_sys' = [mv \in DOMAIN ann_sys \cup {movie} |->
                          IF mv = movie
                          THEN PySlice(tags, line_numbers[m].i, line_numbers[m].j)
                          ELSE ann_sys[mv]]
    /\ m' = m + 1
    /\ UNCHANGED <<pc, movies, decodeVars, nrows, k, a, n1, n2, n3,
                   n_rater_pairs, n_agree_rater_pairs, item_x_class_table, i,
                   maj, report, ann_maj, tag_files, line_numbers>>

\* line 153 exhausted; line 164
AlignDone ==
    /\ pc = "sys_line"
    /\ m > Len(line_numbers)
    /\ m' = 1
    /\ pc' = "acc_movie"
    /\ UNCHANGED <<movies, decodeVars, nrows, k, a, n1, n2, n3, n_rater_pairs,
                   n_agree_rater_pairs, item_x_class_table, i, maj, report,
                   scoreVars>>

\* lines 166-169 for a movie whose consensus sequence is not empty
AccuracyMovie ==
    /\ pc = "acc_movie"
    /\ m <= Len(movies)
    /\ IF movies[m] \notin DOMAIN ann_sys
       THEN pc' = "KeyError" /\ UNCHANGED <<report, m>>
       ELSE /\ Len(ann_maj[movies[m]]) # 0
            /\ report' = Append(report,
                    AccuracyLine(movies[m],
                                 100 * MatchCount(ann_maj[movies[m]], ann_sys[movies[m]]),
                                 Len(ann_maj[movies[m]])))
            /\ m' = m + 1
            /\ pc' = pc
    /\ UNCHANGED <<movies, decodeVars, nrows, k, a, n1, n2, n3, n_rater_pairs,
                   n_agree_rater_pairs, item_x_class_table, i, maj, scoreVars>>

\* line 169 for an empty consensus sequence: 100*n/N divides by zero
AccuracyMovieEmpty ==
    /\ pc = "acc_movie"
    /\ m <= Len(movies)
    /\ movies[m] \in DOMAIN ann_sys
    /\ Len(ann_maj[movies[m]]) = 0
    /\ pc' = "ZeroDivisionError"
    /\ UNCHANGED <<movies, decodeVars, agreeVars, report, scoreVars>>

\* line 166 exhausted; lines 170-176
AccuracyDone ==
    /\ pc = "acc_movie"
    /\ m > Len(movies)
    /\ t' = 1
    /\ pc' = "prf_tag"
    /\ UNCHANGED <<movies, row, n, atag, anns, agreeVars, report, scoreVars>>

\* lines 178-187 for a tag with a true positive
ScoreTag ==
    /\ pc = "prf_tag"
    /\ t <= Len(TagList)
    /\ LET tp == CorpusTruePositives(TagList[t], Len(movies))
           fp == CorpusFalsePositives(TagList[t], Len(movies))
           fn == CorpusFalseNegatives(TagList[t], Len(movies))
       IN  /\ tp + fp # 0
           /\ tp + fn # 0
           /\ tp # 0
           /\ report' = Append(report, ScoreLine(TagList[t], tp, fp, fn))
    /\ t' = t + 1
    /\ UNCHANGED <<pc, movies, row, n, atag, anns, agreeVars, scoreVars>>

\* lines 184-186 otherwise: tp/(tp + fp), tp/(tp + fn) or 2*p*r/(p + r)
\* divides by zero (p + r is 0 exactly when tp is)
ScoreTagDegenerate ==
    /\ pc = "prf_tag"
    /\ t <= Len(TagList)
    /\ LET tp == CorpusTruePositives(TagList[t], Len(movies))
           fp == CorpusFalsePositives(TagList[t], Len(movies))
           fn == CorpusFalseNegatives(TagList[t], Len(movies))
       IN  tp + fp = 0 \/ tp + fn = 0 \/ tp = 0
    /\ pc' = "ZeroDivisionError"
    /\ UNCHANGED <<movies, decodeVars, agreeVars, report, scoreVars>>

\* line 178 exhausted; line 189
ScoreDone ==
    /\ pc = "prf_tag"
    /\ t > Len(TagList)
    /\ pc' = "done"
    /\ UNCHANGED <<movies, decodeVars, agreeVars, report, scoreVars>>

\* the corpora scored: the free movie "m2", alone or after a movie "m1" whose
\* consensus and system output hold each structural tag once
Window(movie, from, to) == [movie |-> movie, i |-> from, j |-> to]

InitScore ==
    /\ pc = "sys_line"
    /\ IdleDecode
    /\ nrows = <<>>
    /\ m = 1 /\ k = 0 /\ a = <<>>
    /\ n1 = 0 /\ n2 = 0 /\ n3 = 0
    /\ n_rater_pairs = 0 /\ n_agree_rater_pairs = 0
    /\ item_x_class_table = <<>>
    /\ i = 0
    /\ maj = <<>>
    /\ report = <<>>
    /\ ann_sys = <<>>
    /\ \E withM1 \in BOOLEAN :
       \E majM2 \in SeqsUpTo(ScoreTags, MaxLines) :
       \E fileM2 \in SeqsUpTo(Tokens, MaxFile) :
       \E from \in 0..MaxFile + 1, to \in 0..MaxFile + 1 :
          IF withM1
          THEN /\ movies = <<"m1", "m2">>
               /\ ann_maj = [mv \in {"m1", "m2"} |->
                                IF mv = "m1" THEN TagList ELSE majM2]
               /\ tag_files = [mv \in {"m1", "m2"} |->
                                  IF mv = "m1" THEN TagList ELSE fileM2]
               /\ line_numbers = <<Window("m1", 0, Len(TagList)),
                                   Window("m2", from, to)>>
          ELSE /\ movies = <<"m2">>
               /\ ann_maj = [mv \in {"m2"} |-> majM2]
               /\ tag_files = [mv \in {"m2"} |-> fileM2]
               /\ line_numbers = <<Window("m2", from, to)>>

NextScore ==
    \/ AlignLine
    \/ AlignDone
    \/ AccuracyMovie
    \/ AccuracyMovieEmpty
    \/ AccuracyDone
    \/ ScoreTag
    \/ ScoreTagDegenerate
    \/ ScoreDone

SpecScore == InitScore /\ [][NextScore]_vars


(***************************************************************************)
(* C3, C4, C7, C8, C9.  Alignment and scoring.                             *)
(***************************************************************************)
Scoring == pc \in {"prf_tag", "done"} \/ (pc = "ZeroDivisionError" /\ t >= 1)
AccuracyLines == {x \in 1..Len(report) : report[x].kind = "acc"}
ScoreLines == {x \in 1..Len(report) : report[x].kind = "prf"}

\* the positions of all movies at which a consensus tag meets a system tag
Compared ==
    {c \in UNION {{<<mv, pos>> : pos \in 1..Len(ann_maj[mv])} : mv \in DOMAIN ann_sys} :
        c[2] <= Len(ann_sys[c[1]])}
ConsensusAt(c) == ann_maj[c[1]][c[2]]
SystemAt(c) == ann_sys[c[1]][c[2]]

\* C3: for each structural tag, tp counts the compared positions with
\* consensus = system = tag, fp those with consensus # system = tag, fn those
\* with tag = consensus # system, over all movies; "O" is never scored, but a
\* system "O" against consensus t is a false negative of t and a system t
\* against consensus "O" is a false positive of t.
C3_PerTagCounts ==
    Scoring =>
        \A x \in ScoreLines :
            LET tag == report[x].key
            IN  /\ tag \in Tags
                /\ report[x].tp = Cardinality({c \in Compared :
                        ConsensusAt(c) = tag /\ SystemAt(c) = tag})
                /\ report[x].fp = Cardinality({c \in Compared :
                        ConsensusAt(c) # SystemAt(c) /\ SystemAt(c) = tag})
                /\ report[x].fn = Cardinality({c \in Compared :
                        ConsensusAt(c) = tag /\ SystemAt(c) # tag})
                /\ report[x].fn >= Cardinality({c \in Compared :
                        ConsensusAt(c) = tag /\ SystemAt(c) = "O"})
                /\ report[x].fp >= Cardinality({c \in Compared :
                        ConsensusAt(c) = "O" /\ SystemAt(c) = tag})

\* tag T scored over two movies: one hit in m1; in m2 a system "O" against
\* consensus T and a system T against consensus "O"
C3_WitnessOCountsAgainstT ==
    /\ pc = "done"
    /\ ann_maj["m2"] = <<"T", "O">>
    /\ ann_sys["m2"] = <<"O", "T">>
    /\ report[Len(report)].key = "T"
    /\ report[Len(report)].tp = 1
    /\ report[Len(report)].fp = 1
    /\ report[Len(report)].fn = 1

C7_LengthMismatchIsReported ==
    /\ \A x \in AccuracyLines :
           Len(ann_sys[report[x].key]) = Len(ann_maj[report[x].key])
    /\ ScoreLines # {} =>
           \A mv \in DOMAIN ann_sys : Len(ann_sys[mv]) = Len(ann_maj[mv])

\* the line_numbers entries already read
Aligned == IF pc = "sys_line" THEN 1..(m - 1) ELSE 1..Len(line_numbers)
WindowInFile(w) == 0 <= w.i /\ w.i <= w.j /\ w.j <= Len(tag_files[w.movie])

\* C8: the system sequence of a window is the normalized tokens start..end-1
\* of the file, and a window that is not start <= end <= length ends the run
\* in an error.
C8_WindowContract ==
    \A x \in Aligned :
        LET w == line_numbers[x]
        IN  /\ WindowInFile(w) =>
                /\ Len(ann_sys[w.movie]) = w.j - w.i
                /\ \A pos \in 1..(w.j - w.i) :
                       ann_sys[w.movie][pos] =
                           IF tag_files[w.movie][w.i + pos] \in Tags
                           THEN tag_files[w.movie][w.i + pos] ELSE "O"
            /\ ~WindowInFile(w) => pc \in {"ValueError", "IndexError"}

\* C9: a tag with no predicted positive, no true instance or no true positive
\* is reported as undefined and the remaining tags are still scored: when
\* scoring has ended, the report holds a line for each of the six tags.
C9_DegenerateTagsAreReported ==
    (pc = "done" \/ (pc = "ZeroDivisionError" /\ t >= 1)) =>
        \A tag \in Tags : \E x \in ScoreLines : report[x].key = tag

====
